---- MODULE Spec2Model ----
(***************************************************************************)
(* A model of mutrait (src/dist/main/index.js): trait functions, the       *)
(* decorators that wrap them (BareTrait, Cached, Dedupe, HasInstance,      *)
(* Trait), the classes their applications produce, and the TraitBuilder.   *)
(*                                                                         *)
(* Function objects and class objects live in two heaps.  A function       *)
(* object has a prototype link (Object.setPrototypeOf in wrap), an own     *)
(* _wrappedTrait property and an own Symbol.hasInstance property.  A class *)
(* has the link of its constructor (static lookups such as                 *)
(* superclass[_cachedApplications] follow it), the link of its prototype   *)
(* object (expresses follows it), the own _appliedTrait property of its    *)
(* prototype object and the own _cachedApplications Map of its             *)
(* constructor.                                                            *)
(***************************************************************************)
EXTENDS Integers, Sequences, FiniteSets, TLC

VARIABLES
    fns,        \* the function objects: trait functions and their wrappers
    exported,   \* the functions the program holds a reference to
    classes,    \* the class objects
    last,       \* the last operation: its name, arguments and result
    wrapOrder,  \* history of the direct wrap() calls (see WrapFns)
    me,         \* the object the program made with `new`, and its fields
    running     \* the calls of a Cached wrapper that have not returned yet

vars == <<fns, exported, classes, last, wrapOrder, me, running>>

---------------------------------------------------------------------------
(* Bounds of the model *)

\* classes created besides Object
MaxCls == 3
\* wrapper functions created by BareTrait, Cached and Dedupe
MaxWrappers == 2
\* traits made with Trait()
MaxDecorations == 2
\* traits handed to one expressing() call
MaxTraits == 2
\* plain functions handed to wrap() directly
MaxPlain == 3
\* classes in a program that builds with traits(), trait() and superclass()
MaxBuilderCls == 4
\* calls of Cached wrappers that have started and not returned
MaxDepth == 2
\* classes in a program built from the diamond of traits
MaxDiamondCls == 5
\* of which classes that no trait made: declared ones and builder roots
MaxRoots == 2

---------------------------------------------------------------------------
(* Values *)

\* null / undefined: the end of every prototype chain, "no superclass"
Null == 0
\* the built-in Object constructor
ObjectCls == 1

ClsIds == (ObjectCls + 1)..(ObjectCls + MaxCls)

\* A function object is named by the way it was made: the raw trait
\* function first, then one <<decorator, copy>> pair per wrapping layer.
NoFn == <<>>
RawFns == { << <<"f", 0>> >>, << <<"g", 0>> >> }

\* the trait functions of a diamond: a common trait k, two traits s1 and s2
\* that build on it, and sub that builds on both
DiamondRaw == { << <<"k", 0>> >>, << <<"s1", 0>> >>, << <<"s2", 0>> >>, << <<"sub", 0>> >> }

\* the first Trait() decoration of a raw trait function
TraitOf(raw) == raw \o << <<"bare", 1>>, <<"cached", 1>>, <<"dedupe", 1>> >>

\* the supertraits the body of a raw trait function applies:
\* s => class extends superclass(s).expressing(...Supers) {}
Supers(t) ==
    CASE t = << <<"s1", 0>> >>  -> << TraitOf(<< <<"k", 0>> >>) >>
      [] t = << <<"s2", 0>> >>  -> << TraitOf(<< <<"k", 0>> >>) >>
      [] t = << <<"sub", 0>> >> -> << TraitOf(<< <<"s1", 0>> >>), TraitOf(<< <<"s2", 0>> >>) >>
      [] OTHER -> <<>>

Kind(t) == IF Len(t) = 1 THEN "raw" ELSE t[Len(t)][1]

\* the `trait` variable a wrapper's closure captured
Inner(t) == SubSeq(t, 1, Len(t) - 1)

\* a function object as the language creates it: its prototype is
\* Function.prototype (NoFn here), and it has no own symbol properties
NewFunction ==
    [proto |-> NoFn, wrappedTrait |-> NoFn,
     hasInstance |-> FALSE, priorHasInstance |-> NoFn]

\* a class object and its prototype object; methods are the methods its
\* body defines, fields the fields its constructor assigns after super(...)
NewClass(s, protoParent) ==
    [ctorParent |-> s, protoParent |-> protoParent, appliedTrait |-> NoFn,
     hasCache |-> FALSE, cache |-> <<>>, methods |-> {}, fields |-> {}]

\* the methods and fields the class in the body of a raw trait function has
Methods(t) ==
    CASE t = << <<"f", 0>> >>   -> {"foo"}
      [] t = << <<"g", 0>> >>   -> {"bar"}
      [] t = << <<"k", 0>> >>   -> {"bleep", "common"}
      [] t = << <<"s1", 0>> >>  -> {"bleep", "foo1", "foo", "bar", "snafu"}
      [] t = << <<"s2", 0>> >>  -> {"foo2", "foo", "bar", "snafu"}
      [] t = << <<"sub", 0>> >> -> {"bar", "snafu"}
      [] t = << <<"nameable", 0>> >> ->
             {"fullName", "firstName", "lastName", "checkFirstName", "checkLastName"}
      [] OTHER -> {}

Fields(t) ==
    CASE t = << <<"f", 0>> >> -> {"field"}
      [] t = << <<"nameable", 0>> >> -> {"_firstName", "_lastName"}
      [] OTHER -> {}

\* the objects expresses() walks over: null, an instance of class c, and the
\* prototype object of class c
NullVal == [k |-> "null", c |-> Null]
Inst(c) == [k |-> "inst", c |-> c]
Proto(c) == [k |-> "proto", c |-> c]

\* Object.getPrototypeOf(it)
getPrototypeOf(cl, it) ==
    IF it.k = "inst" THEN Proto(it.c)
    ELSE IF cl[it.c].protoParent = Null THEN NullVal
    ELSE Proto(cl[it.c].protoParent)

\* it.name for a method: the class whose prototype object is the first on
\* the chain that starts at `it` to have the method, Null when none has
RECURSIVE lookup(_, _, _)
lookup(cl, it, name) ==
    IF it.k = "null" THEN Null
    ELSE IF it.k = "proto" /\ name \in cl[it.c].methods THEN it.c
    ELSE lookup(cl, getPrototypeOf(cl, it), name)

\* super.name inside a method of class c: the lookup starts at the
\* prototype of the prototype object of c
superLookup(cl, c, name) == lookup(cl, getPrototypeOf(cl, Proto(c)), name)

\* new c(): the constructors run from the root down, each assigning its
\* fields after super(...) returned; gives, per field, the class whose
\* assignment the instance holds
RECURSIVE construct(_, _)
construct(cl, c) ==
    LET base == IF cl[c].protoParent \in {Null, ObjectCls} THEN <<>>
                ELSE construct(cl, cl[c].protoParent)
    IN  [n \in (DOMAIN base) \cup cl[c].fields |->
            IF n \in cl[c].fields THEN c ELSE base[n]]

---------------------------------------------------------------------------
(* wrap and unwrap *)

\* the property lookup x[_wrappedTrait]: own property first, then the
\* prototype chain of the function object
RECURSIVE GetWrappedTrait(_, _)
GetWrappedTrait(F, x) ==
    IF x = NoFn THEN NoFn
    ELSE IF F[x].wrappedTrait # NoFn THEN F[x].wrappedTrait
    ELSE GetWrappedTrait(F, F[x].proto)

\* an unwrap that gives the function directly under the wrapper
unwrapOneLayer(F, wrapper) ==
    IF F[wrapper].proto # NoFn THEN F[wrapper].proto ELSE wrapper

unwrap(F, wrapper) ==
    LET w == GetWrappedTrait(F, wrapper)
    IN  IF w # NoFn THEN w ELSE wrapper

\* wrap without its guard: the marker is written on every call
wrapAlwaysMarks(F, trait, wrapper) ==
    [F EXCEPT ![wrapper].proto = trait, ![trait].wrappedTrait = trait]

wrap(F, trait, wrapper) ==
    LET F1 == [F EXCEPT ![wrapper].proto = trait]
    IN  IF GetWrappedTrait(F1, trait) = NoFn
        THEN [F1 EXCEPT ![trait].wrappedTrait = trait]
        ELSE F1

---------------------------------------------------------------------------
(* isTraitificationOf and expresses *)

\* the property read proto[_appliedTrait]: own property first, then the
\* prototype chain
RECURSIVE GetAppliedTrait(_, _)
GetAppliedTrait(cl, it) ==
    IF it.k = "null" THEN NoFn
    ELSE IF it.k = "proto" /\ cl[it.c].appliedTrait # NoFn THEN cl[it.c].appliedTrait
    ELSE GetAppliedTrait(cl, getPrototypeOf(cl, it))

\* isTraitificationOf without its hasOwnProperty test: an inherited marker
\* counts
isTraitificationOfInherited(cl, proto, trait) ==
    /\ GetAppliedTrait(cl, proto) # NoFn
    /\ GetAppliedTrait(cl, proto) = unwrap(fns, trait)

\* isTraitificationOf comparing with the trait as given, not unwrapped
isTraitificationOfAsGiven(cl, proto, trait) ==
    /\ proto.k = "proto"
    /\ cl[proto.c].appliedTrait # NoFn
    /\ cl[proto.c].appliedTrait = trait

isTraitificationOf(cl, proto, trait) ==
    /\ proto.k = "proto"
    /\ cl[proto.c].appliedTrait # NoFn
    /\ cl[proto.c].appliedTrait = unwrap(fns, trait)

\* expresses without its loop: the object and its direct prototype only
expressesNoLoop(cl, it, trait) ==
    /\ it.k # "null"
    /\ \/ isTraitificationOf(cl, it, trait)
       \/ LET up == getPrototypeOf(cl, it)
          IN  up.k # "null" /\ isTraitificationOf(cl, up, trait)

RECURSIVE expresses(_, _, _)
expresses(cl, it, trait) ==
    IF it.k = "null" THEN FALSE
    ELSE IF isTraitificationOf(cl, it, trait) THEN TRUE
    ELSE expresses(cl, getPrototypeOf(cl, it), trait)

---------------------------------------------------------------------------
(* Calling a trait function *)

\* The outcome of a call: the class heap after it, the returned class, "none"
\* or the reason no value was returned, and the calls made, in the order they
\* returned.
Done(cl, res, log) == [cls |-> cl, res |-> res, err |-> "none", log |-> log]
Event(f, s, r, by) == [f |-> f, s |-> s, r |-> r, by |-> by]

\* The outcome of a call that threw: err names the error object thrown
Thrown(cl, err, log) == [cls |-> cl, res |-> Null, err |-> err, log |-> log]

\* the raw trait function that throws:  s => { throw new Error('boom') }
Boom == << <<"boom", 0>> >>

\* the identity of the next class object created
NextCls(cl) == (CHOOSE c \in DOMAIN cl : \A d \in DOMAIN cl : d <= c) + 1

RECURSIVE Call(_, _, _, _)

RECURSIVE superclass(_, _)
RECURSIVE expressing(_, _)

\* the raw trait function  s => class extends s {}, or, with supertraits,
\* s => class extends superclass(s).expressing(...) {}
RawBody(cl, t, s, by) ==
    LET b == IF Supers(t) = <<>> THEN Done(cl, s, <<>>)
             ELSE expressing(superclass(cl, s), Supers(t))
        c == NextCls(b.cls)
    IN  IF t = Boom THEN Thrown(cl, "boom", <<Event(t, s, Null, by)>>)
        ELSE IF b.err # "none" THEN b
        ELSE Done(b.cls @@ (c :> [NewClass(b.res, b.res) EXCEPT
                                      !.methods = Methods(t),
                                      !.fields = Fields(t)]),
                  c, Append(b.log, Event(t, s, c, by)))

\* apply catching what the trait throws and returning the superclass
applyCatches(cl, s, trait, by) ==
    LET a == Call(cl, trait, s, by)
    IN  IF a.err # "none" THEN Done(a.cls, s, a.log)
        ELSE [a EXCEPT !.cls =
                 [a.cls EXCEPT ![a.res].appliedTrait = unwrap(fns, trait)]]

\* apply writing the marker on the prototype of the superclass
applyMarksSuperclass(cl, s, trait, by) ==
    LET a == Call(cl, trait, s, by)
    IN  IF a.err # "none" THEN a
        ELSE [a EXCEPT !.cls =
                 [a.cls EXCEPT ![s].appliedTrait = unwrap(fns, trait)]]

\* apply storing the trait as given, not unwrapped
applyMarksAsGiven(cl, s, trait, by) ==
    LET a == Call(cl, trait, s, by)
    IN  IF a.err # "none" THEN a
        ELSE [a EXCEPT !.cls = [a.cls EXCEPT ![a.res].appliedTrait = trait]]

apply(cl, s, trait, by) ==
    LET a == Call(cl, trait, s, by)
    IN  IF a.err # "none" THEN a
        ELSE [a EXCEPT !.cls =
                 [a.cls EXCEPT ![a.res].appliedTrait = unwrap(fns, trait)]]

\* a wrapper that applies the trait twice
BareTraitBodyTwice(cl, t, s, by) ==
    LET a == apply(cl, s, Inner(t), t)
        b == apply(a.cls, a.res, Inner(t), t)
    IN  IF a.err # "none" THEN a
        ELSE IF b.err # "none" THEN b
        ELSE [b EXCEPT !.log = Append(a.log \o b.log, Event(t, s, b.res, by))]

\* a wrapper that applies the trait and returns the superclass it was given
BareTraitBodyReturnsBase(cl, t, s, by) ==
    LET a == apply(cl, s, Inner(t), t)
    IN  IF a.err # "none" THEN a
        ELSE [a EXCEPT !.res = s, !.log = Append(a.log, Event(t, s, s, by))]

\* superclass => apply(superclass, trait)
BareTraitBody(cl, t, s, by) ==
    LET a == apply(cl, s, Inner(t), t)
    IN  IF a.err # "none" THEN a
        ELSE [a EXCEPT !.log = Append(a.log, Event(t, s, a.res, by))]

\* the property lookup superclass[_cachedApplications]: the class that owns
\* the Map found, own property first, then the constructor's prototype chain
RECURSIVE CacheOwner(_, _)
CacheOwner(cl, s) ==
    IF s = Null THEN Null
    ELSE IF cl[s].hasCache THEN s
    ELSE CacheOwner(cl, cl[s].ctorParent)

\* a set() that drops the other entries of the Map
MapSetAlone(m, key, v) == (key :> v)

MapSet(m, key, v) ==
    [x \in (DOMAIN m) \cup {key} |-> IF x = key THEN v ELSE m[x]]

\* a Cached wrapper that records a failed application in the Map
CachedBodyRecordsFailure(cl, t, s, by) ==
    LET trait == Inner(t)
        found == CacheOwner(cl, s)
        owner == IF found = Null THEN s ELSE found
        cl1   == IF found = Null THEN [cl EXCEPT ![s].hasCache = TRUE] ELSE cl
        map   == cl1[owner].cache
    IN  IF trait \in DOMAIN map
        THEN Done(cl1, map[trait], <<Event(t, s, map[trait], by)>>)
        ELSE LET a == Call(cl1, trait, s, t)
             IN  IF a.err # "none"
                 THEN [a EXCEPT !.cls[owner].cache = MapSet(@, trait, Null)]
                 ELSE Done([a.cls EXCEPT ![owner].cache = MapSet(@, trait, a.res)],
                           a.res, Append(a.log, Event(t, s, a.res, by)))

\* a Cached wrapper that stores the superclass in place of the application
CachedBodyStoresBase(cl, t, s, by) ==
    LET trait == Inner(t)
        found == CacheOwner(cl, s)
        owner == IF found = Null THEN s ELSE found
        cl1   == IF found = Null THEN [cl EXCEPT ![s].hasCache = TRUE] ELSE cl
        map   == cl1[owner].cache
    IN  IF trait \in DOMAIN map
        THEN Done(cl1, map[trait], <<Event(t, s, map[trait], by)>>)
        ELSE LET a == Call(cl1, trait, s, t)
             IN  IF a.err # "none" THEN a
                 ELSE Done([a.cls EXCEPT ![owner].cache = MapSet(@, trait, s)],
                           a.res, Append(a.log, Event(t, s, a.res, by)))

\* the wrapper Cached(trait) creates
CachedBody(cl, t, s, by) ==
    LET trait == Inner(t)
        found == CacheOwner(cl, s)
        owner == IF found = Null THEN s ELSE found
        cl1   == IF found = Null THEN [cl EXCEPT ![s].hasCache = TRUE] ELSE cl
        map   == cl1[owner].cache
    IN  IF trait \in DOMAIN map
        THEN Done(cl1, map[trait], <<Event(t, s, map[trait], by)>>)
        ELSE LET a == Call(cl1, trait, s, t)
             IN  IF a.err # "none" THEN a
                 ELSE Done([a.cls EXCEPT ![owner].cache = MapSet(@, trait, a.res)],
                           a.res, Append(a.log, Event(t, s, a.res, by)))

\* Dedupe looking at the prototype of the superclass only, not up its chain
DedupeBodyOwnOnly(cl, t, s, by) ==
    LET trait == Inner(t)
    IN  IF isTraitificationOf(cl, Proto(s), trait)
        THEN Done(cl, s, <<Event(t, s, s, by)>>)
        ELSE LET a == Call(cl, trait, s, t)
             IN  IF a.err # "none" THEN a
                 ELSE [a EXCEPT !.log = Append(a.log, Event(t, s, a.res, by))]

\* the wrapper Dedupe(trait) creates
DedupeBody(cl, t, s, by) ==
    LET trait == Inner(t)
    IN  IF expresses(cl, Proto(s), trait)
        THEN Done(cl, s, <<Event(t, s, s, by)>>)
        ELSE LET a == Call(cl, trait, s, t)
             IN  IF a.err # "none" THEN a
                 ELSE [a EXCEPT !.log = Append(a.log, Event(t, s, a.res, by))]

\* t(s), called by `by` (NoFn: by the user's code)
Call(cl, t, s, by) ==
    CASE Kind(t) = "raw"    -> RawBody(cl, t, s, by)
      [] Kind(t) = "bare"   -> BareTraitBody(cl, t, s, by)
      [] Kind(t) = "cached" -> CachedBody(cl, t, s, by)
      [] Kind(t) = "dedupe" -> DedupeBody(cl, t, s, by)

---------------------------------------------------------------------------
(* The decorators *)

Wrappers(F) == {t \in DOMAIN F : Len(t) > 1}

\* the closure a decorator creates around `trait`
FreshFn(F, trait, kind) ==
    LET copies == {n \in 1..MaxWrappers : Append(trait, <<kind, n>>) \in DOMAIN F}
    IN  Append(trait, <<kind, Cardinality(copies) + 1>>)

Decorate(F, trait, kind) ==
    LET wrapper == FreshFn(F, trait, kind)
    IN  [F |-> wrap(F @@ (wrapper :> NewFunction), trait, wrapper), f |-> wrapper]

BareTrait(F, trait) == Decorate(F, trait, "bare")

Cached(F, trait) == Decorate(F, trait, "cached")

Dedupe(F, trait) == Decorate(F, trait, "dedupe")

\* the property lookup trait[Symbol.hasInstance]: the function object that
\* owns the custom method found, NoFn for Function.prototype's built-in one
RECURSIVE HasInstanceOwner(_, _)
HasInstanceOwner(F, x) ==
    IF x = NoFn THEN NoFn
    ELSE IF F[x].hasInstance THEN x
    ELSE HasInstanceOwner(F, F[x].proto)

HasInstance(F, trait) ==
    [F |-> [F EXCEPT ![trait].priorHasInstance = HasInstanceOwner(F, trait),
                     ![trait].hasInstance = TRUE],
     f |-> trait]

\* the layers with Cached outside Dedupe
TraitCachedOutside(F, trait) ==
    LET b == BareTrait(F, trait)
        d == Dedupe(b.F, b.f)
        c == Cached(d.F, d.f)
    IN  HasInstance(c.F, c.f)

Trait(F, trait) ==
    LET b == BareTrait(F, trait)
        c == Cached(b.F, b.f)
        d == Dedupe(c.F, c.f)
    IN  HasInstance(d.F, d.f)

\* the method of HasInstance with && in place of ||
HasInstanceValueBoth(cl, owner, it) ==
    LET prior == fns[owner].priorHasInstance
    IN  /\ prior # NoFn
        /\ expresses(cl, it, prior)
        /\ expresses(cl, it, owner)

\* the method HasInstance defined on `owner`, called with `it`:
\* priorHasInstance(it) || expresses(it, trait)
RECURSIVE HasInstanceValue(_, _, _)
HasInstanceValue(cl, owner, it) ==
    LET prior == fns[owner].priorHasInstance
    IN  \/ (prior # NoFn /\ HasInstanceValue(cl, prior, it))
        \/ expresses(cl, it, owner)

\* it instanceof t, for a function t that has or inherits a custom method
instanceOf(cl, it, t) ==
    LET owner == HasInstanceOwner(fns, t)
    IN  owner # NoFn /\ HasInstanceValue(cl, owner, it)

---------------------------------------------------------------------------
(* The builder *)

\* a builder whose default superclass is one empty class made once and used
\* by every builder
TraitBuilderSharedRoot(cl, s) ==
    LET roots == {c \in (DOMAIN cl) \ {ObjectCls} :
                     cl[c].ctorParent = Null /\ cl[c].appliedTrait = NoFn}
        c     == NextCls(cl)
    IN  IF s # Null THEN Done(cl, s, <<>>)
        ELSE IF roots # {} THEN Done(cl, CHOOSE r \in roots : TRUE, <<>>)
        ELSE Done(cl @@ (c :> NewClass(Null, ObjectCls)), c, <<>>)

\* a builder whose default superclass is Object
TraitBuilderOnObject(cl, s) ==
    IF s # Null THEN Done(cl, s, <<>>) ELSE Done(cl, ObjectCls, <<>>)

\* new TraitBuilder(s): this.superclass = s || class {}
TraitBuilder(cl, s) ==
    IF s # Null THEN Done(cl, s, <<>>)
    ELSE LET c == NextCls(cl)
         IN  Done(cl @@ (c :> NewClass(Null, ObjectCls)), c, <<>>)

superclass(cl, s) == TraitBuilder(cl, s)

RECURSIVE reduce(_, _, _, _)

\* a reduce from the last trait to the first
reduceReversed(cl, it, ts, log) ==
    IF ts = <<>> THEN Done(cl, it, log)
    ELSE LET a == Call(cl, ts[Len(ts)], it, NoFn)
         IN  IF a.err # "none" THEN [a EXCEPT !.log = log \o a.log]
             ELSE reduce(a.cls, a.res, SubSeq(ts, 1, Len(ts) - 1), log \o a.log)

\* a reduce that stops after the first trait
reduceHeadOnly(cl, it, ts, log) ==
    IF ts = <<>> THEN Done(cl, it, log)
    ELSE LET a == Call(cl, Head(ts), it, NoFn)
         IN  [a EXCEPT !.log = log \o a.log]

\* traits.reduce((it, t) => t(it), this.superclass)
reduce(cl, it, ts, log) ==
    IF ts = <<>> THEN Done(cl, it, log)
    ELSE LET a == Call(cl, Head(ts), it, NoFn)
         IN  IF a.err # "none" THEN [a EXCEPT !.log = log \o a.log]
             ELSE reduce(a.cls, a.res, Tail(ts), log \o a.log)

\* b is the builder: the outcome of superclass(...)
expressing(b, ts) ==
    IF b.err # "none" THEN b ELSE reduce(b.cls, b.res, ts, <<>>)

\* the builder object new TraitBuilder(...) leaves behind
Builder(b) == [superclass |-> b.res]

\* builder.expressing(...ts): the builder after the call and the outcome
expressingOn(cl, builder, ts) ==
    [builder |-> builder,
     out |-> expressing(Done(cl, builder.superclass, <<>>), ts)]

traits(cl, ts) == expressing(superclass(cl, Null), ts)

trait(cl, ts) == traits(cl, ts)

---------------------------------------------------------------------------
(* The state machine *)

Op(op, ts, s, res) == [op |-> op, ts |-> ts, s |-> s, res |-> res]

NoWraps == [inner |-> {}, late |-> {}]

\* no object made yet
NoObject == [cls |-> Null, vals |-> <<>>]

Init ==
    /\ fns = [t \in RawFns |-> NewFunction]
    /\ exported = RawFns
    /\ classes = (ObjectCls :> NewClass(Null, Null))
    /\ last = Op("init", <<>>, Null, Null)
    /\ wrapOrder = NoWraps
    /\ me = NoObject
    /\ running = <<>>

Decorated(op, d) ==
    /\ fns' = d.F
    /\ exported' = exported \cup {d.f}
    /\ last' = Op(op, <<d.f>>, Null, Null)
    /\ UNCHANGED <<classes, wrapOrder, me, running>>

Room == Cardinality(Wrappers(fns)) < MaxWrappers

DoBareTrait(t) == Room /\ Decorated("BareTrait", BareTrait(fns, t))

DoCached(t) == Room /\ Decorated("Cached", Cached(fns, t))

DoDedupe(t) == Room /\ Decorated("Dedupe", Dedupe(fns, t))

DoTrait(t) ==
    /\ Cardinality({x \in exported : Kind(x) = "dedupe"}) < MaxDecorations
    /\ Decorated("Trait", Trait(fns, t))

UserClasses(cl) == (DOMAIN cl) \ {ObjectCls}

\* class C {}  (p = Null)  or  class C extends p {}
DefineClass(p) ==
    /\ NextCls(classes) \in ClsIds
    /\ LET c == NextCls(classes)
       IN  /\ classes' = classes @@
                 (c :> NewClass(p, IF p = Null THEN ObjectCls ELSE p))
           /\ last' = Op("class", <<>>, p, c)
    /\ UNCHANGED <<fns, exported, wrapOrder, me, running>>

Returned(op, ts, s, a) ==
    /\ a.err = "none"
    /\ UserClasses(a.cls) \subseteq ClsIds
    /\ classes' = a.cls
    /\ last' = Op(op, ts, s, a.res)
    /\ UNCHANGED <<fns, exported, wrapOrder, me, running>>

CallTrait(t, s) == Returned("call", <<t>>, s, Call(classes, t, s, NoFn))

DoApply(s, t) == Returned("apply", <<t>>, s, apply(classes, s, t, NoFn))

DoExpressing(s, ts) ==
    Returned("expressing", <<>>, Null, expressing(superclass(classes, s), ts))

\* the decorated traits the program holds
Decorators == exported \ RawFns

\* lists of distinct traits, as handed to expressing()
TraitLists ==
    {ts \in UNION {[1..n -> Decorators] : n \in 1..MaxTraits} :
        \A i, j \in DOMAIN ts : i # j => ts[i] # ts[j]}

Build ==
    \/ \E p \in {Null} \cup UserClasses(classes) : DefineClass(p)
    \/ \E t \in Decorators, s \in UserClasses(classes) : CallTrait(t, s)

\* programs whose traits are made with Trait()
Next ==
    \/ \E t \in RawFns : DoTrait(t)
    \/ Build
    \/ \E t \in RawFns, s \in UserClasses(classes) : DoApply(s, t)
    \/ \E s \in {Null} \cup UserClasses(classes), ts \in TraitLists :
          DoExpressing(s, ts)

Spec == Init /\ [][Next]_vars

\* Trait decorations, class declarations, trait calls and apply, without the
\* builder
NextTraits ==
    \/ \E t \in RawFns : DoTrait(t)
    \/ Build
    \/ \E s \in UserClasses(classes), t \in RawFns : DoApply(s, t)

SpecTraits == Init /\ [][NextTraits]_vars

\* programs whose traits are made with the single decorators
NextLayers ==
    \/ \E t \in RawFns : DoBareTrait(t)
    \/ \E t \in {x \in exported : Kind(x) \in {"raw", "bare"}} : DoCached(t)
    \/ \E t \in {x \in exported : Kind(x) \in {"bare", "cached"}} : DoDedupe(t)
    \/ Build

SpecLayers == Init /\ [][NextLayers]_vars

\* HasInstance(t) on a function the program holds.  Object.defineProperty
\* throws a TypeError when t already has the property of its own (it is
\* neither writable nor configurable) and leaves everything as it was.
DoHasInstance(t) ==
    /\ ~fns[t].hasInstance
    /\ Decorated("HasInstance", HasInstance(fns, t))

\* programs that also add the instanceof support themselves
NextTypes ==
    \/ \E t \in RawFns : DoTrait(t)
    \/ \E t \in exported : DoHasInstance(t)
    \/ Build

SpecTypes == Init /\ [][NextTypes]_vars

---------------------------------------------------------------------------
(* Programs built from the diamond of traits *)

\* const K = Trait(k), S1 = Trait(s1), S2 = Trait(s2), Sub = Trait(sub)
DiamondFns ==
    LET k  == Trait([t \in DiamondRaw |-> NewFunction], << <<"k", 0>> >>)
        s1 == Trait(k.F, << <<"s1", 0>> >>)
        s2 == Trait(s1.F, << <<"s2", 0>> >>)
    IN  Trait(s2.F, << <<"sub", 0>> >>).F

Common == TraitOf(<< <<"k", 0>> >>)
Supertrait1 == TraitOf(<< <<"s1", 0>> >>)
Supertrait2 == TraitOf(<< <<"s2", 0>> >>)
Subtrait == TraitOf(<< <<"sub", 0>> >>)

DiamondTraits == {TraitOf(r) : r \in DiamondRaw}

DiamondIds == (ObjectCls + 1)..(ObjectCls + MaxDiamondCls)

InitDiamond ==
    /\ fns = DiamondFns
    /\ exported = DiamondRaw \cup DiamondTraits
    /\ classes = (ObjectCls :> NewClass(Null, Null))
    /\ last = Op("init", <<>>, Null, Null)
    /\ wrapOrder = NoWraps
    /\ me = NoObject
    /\ running = <<>>

Roots(cl) == {c \in UserClasses(cl) : cl[c].appliedTrait = NoFn}

DiamondReturned(op, ts, s, a) ==
    /\ a.err = "none"
    /\ UserClasses(a.cls) \subseteq DiamondIds
    /\ Cardinality(Roots(a.cls)) <= MaxRoots
    /\ classes' = a.cls
    /\ last' = Op(op, ts, s, a.res)
    /\ UNCHANGED <<fns, exported, wrapOrder, me, running>>

\* class C {}  (p = Null)  or  class C extends p {}
DiamondClass(p) ==
    DiamondReturned("class", <<>>, p,
        LET c == NextCls(classes)
        IN  Done(classes @@ (c :> NewClass(p, IF p = Null THEN ObjectCls ELSE p)),
                 c, <<>>))

DiamondCall(t, s) == DiamondReturned("call", <<t>>, s, Call(classes, t, s, NoFn))

\* traits(...ts), and trait(t) for a single one
DiamondTraitsOf(ts) == DiamondReturned("traits", ts, Null, traits(classes, ts))

\* trait(t): the builder is handed one trait; longer compositions are made
\* by calling further traits on its result
DiamondLists == {<<t>> : t \in DiamondTraits}

NextDiamond ==
    \/ \E p \in {Null} \cup UserClasses(classes) : DiamondClass(p)
    \/ \E t \in DiamondTraits, s \in UserClasses(classes) : DiamondCall(t, s)
    \/ \E ts \in DiamondLists : DiamondTraitsOf(ts)

SpecDiamond == InitDiamond /\ [][NextDiamond]_vars

---------------------------------------------------------------------------
(* Programs that declare classes with members around BareTrait traits *)

MethodNames == {"foo", "bar"}
FieldNames == {"field"}

\* class C [extends p] { constructor() { super(...); this.<fs> = ... } <ms>() {} }
DeclareClass(p, ms, fs) ==
    /\ NextCls(classes) \in ClsIds
    /\ LET c == NextCls(classes)
       IN  /\ classes' = classes @@
                 (c :> [NewClass(p, IF p = Null THEN ObjectCls ELSE p) EXCEPT
                           !.methods = ms, !.fields = fs])
           /\ last' = Op("class", <<>>, p, c)
    /\ UNCHANGED <<fns, exported, wrapOrder, me, running>>

\* const T = BareTrait(f)
MembersFns == BareTrait([t \in RawFns |-> NewFunction], << <<"f", 0>> >>)

InitMembers ==
    /\ fns = MembersFns.F
    /\ exported = RawFns \cup {MembersFns.f}
    /\ classes = (ObjectCls :> NewClass(Null, Null))
    /\ last = Op("init", <<>>, Null, Null)
    /\ wrapOrder = NoWraps
    /\ me = NoObject
    /\ running = <<>>

\* as in the tests, a class that defines foo() keeps its value in a field
FieldsWith(ms) == IF "foo" \in ms THEN FieldNames ELSE {}

NextMembers ==
    \/ \E p \in {Null} \cup UserClasses(classes), ms \in SUBSET MethodNames :
          DeclareClass(p, ms, FieldsWith(ms))
    \/ \E t \in Decorators, s \in UserClasses(classes) : CallTrait(t, s)

SpecMembers == InitMembers /\ [][NextMembers]_vars

---------------------------------------------------------------------------
(* Programs with a trait function that throws *)

\* const F = Trait(f), Bad = Trait(boom), CachedBad = Cached(boom)
ErrFns ==
    LET raw == [t \in {<< <<"f", 0>> >>, Boom} |-> NewFunction]
        F   == Trait(raw, << <<"f", 0>> >>)
        Bad == Trait(F.F, Boom)
    IN  Cached(Bad.F, Boom).F

ErrTraits == {TraitOf(<< <<"f", 0>> >>), TraitOf(Boom), Append(Boom, <<"cached", 1>>)}

InitErr ==
    /\ fns = ErrFns
    /\ exported = {<< <<"f", 0>> >>, Boom} \cup ErrTraits
    /\ classes = (ObjectCls :> NewClass(Null, Null))
    /\ last = Op("init", <<>>, Null, Null)
    /\ wrapOrder = NoWraps
    /\ me = NoObject
    /\ running = <<>>

\* the call threw: what it had done to the heap before stays done
Threw(op, ts, s, a) ==
    /\ a.err # "none"
    /\ UserClasses(a.cls) \subseteq ClsIds
    /\ classes' = a.cls
    /\ last' = Op("throw", ts, s, Null)
    /\ UNCHANGED <<fns, exported, wrapOrder, me, running>>

ErrCall(t, s) ==
    LET a == Call(classes, t, s, NoFn)
    IN  Returned("call", <<t>>, s, a) \/ Threw("call", <<t>>, s, a)

ErrApply(s, t) ==
    LET a == apply(classes, s, t, NoFn)
    IN  Returned("apply", <<t>>, s, a) \/ Threw("apply", <<t>>, s, a)

ErrExpressing(s, ts) ==
    LET a == expressing(superclass(classes, s), ts)
    IN  Returned("expressing", ts, s, a) \/ Threw("expressing", ts, s, a)

\* expressing(T1, T2) with the two Trait-decorated traits, in either order
ErrLists ==
    {ts \in [1..2 -> {TraitOf(<< <<"f", 0>> >>), TraitOf(Boom)}] : ts[1] # ts[2]}

NextErr ==
    \/ \E p \in {Null} \cup UserClasses(classes) : DefineClass(p)
    \/ \E t \in ErrTraits, s \in UserClasses(classes) : ErrCall(t, s)
    \/ \E s \in UserClasses(classes) : ErrApply(s, Boom)
    \/ \E s \in UserClasses(classes), ts \in ErrLists : ErrExpressing(s, ts)

SpecErr == InitErr /\ [][NextErr]_vars

---------------------------------------------------------------------------
(* Programs that build classes with traits(), trait() and superclass() *)

\* const T1 = BareTrait(f), T2 = BareTrait(g), U = Trait(f)
BuilderFns ==
    LET T1 == BareTrait([t \in RawFns |-> NewFunction], << <<"f", 0>> >>)
        T2 == BareTrait(T1.F, << <<"g", 0>> >>)
    IN  Trait(T2.F, << <<"f", 0>> >>).F

BuilderTraits ==
    { Append(<< <<"f", 0>> >>, <<"bare", 1>>),
      Append(<< <<"g", 0>> >>, <<"bare", 1>>),
      << <<"f", 0>>, <<"bare", 2>>, <<"cached", 1>>, <<"dedupe", 1>> >> }

InitBuilder ==
    /\ fns = BuilderFns
    /\ exported = RawFns \cup BuilderTraits
    /\ classes = (ObjectCls :> NewClass(Null, Null))
    /\ last = Op("init", <<>>, Null, Null)
    /\ wrapOrder = NoWraps
    /\ me = NoObject
    /\ running = <<>>

BuilderLists ==
    {ts \in UNION {[1..n -> BuilderTraits] : n \in 1..MaxTraits} :
        \A i, j \in DOMAIN ts : i # j => ts[i] # ts[j]}

BuilderIds == (ObjectCls + 1)..(ObjectCls + MaxBuilderCls)

BuilderReturned(op, ts, s, a) ==
    /\ a.err = "none"
    /\ UserClasses(a.cls) \subseteq BuilderIds
    /\ classes' = a.cls
    /\ last' = Op(op, ts, s, a.res)
    /\ UNCHANGED <<fns, exported, wrapOrder, me, running>>

DoTraits(ts) == Returned("traits", ts, Null, traits(classes, ts))

DoTraitAlias(ts) == Returned("trait", ts, Null, trait(classes, ts))

DoSuperclassExpressing(s, ts) ==
    Returned("expressing", ts, s, expressing(superclass(classes, s), ts))

NextBuilder ==
    \/ \E p \in {Null} \cup UserClasses(classes) : DefineClass(p)
    \/ \E ts \in BuilderLists : DoTraits(ts)
    \/ \E ts \in BuilderLists : DoTraitAlias(ts)
    \/ \E s \in {Null} \cup UserClasses(classes), ts \in BuilderLists :
          DoSuperclassExpressing(s, ts)

SpecBuilder == InitBuilder /\ [][NextBuilder]_vars

\* programs that only build, with one trait or none per call, every call
\* without a base starting from a root of its own
FreshLists == {<<t>> : t \in BuilderTraits}

FreshTraits(ts) == BuilderReturned("traits", ts, Null, traits(classes, ts))

FreshTrait(ts) == BuilderReturned("trait", ts, Null, trait(classes, ts))

FreshExpressing(s, ts) ==
    BuilderReturned("expressing", ts, s, expressing(superclass(classes, s), ts))

NextFresh ==
    \/ \E ts \in FreshLists : FreshTraits(ts)
    \/ \E ts \in FreshLists : FreshTrait(ts)
    \/ \E s \in {Null} \cup UserClasses(classes), ts \in FreshLists \cup {<<>>} :
          FreshExpressing(s, ts)

SpecFresh == InitBuilder /\ [][NextFresh]_vars

---------------------------------------------------------------------------
(* Programs around the Nameable trait: objects, setters and validation *)

\* the trait function handed to Trait(): superclass => class extends
\* superclass { constructor, fullName, firstName, lastName, check...Name }
NameableRaw == << <<"nameable", 0>> >>

\* const Nameable = Trait(...)
NameableFns == Trait([t \in {NameableRaw} |-> NewFunction], NameableRaw)

Nameable == TraitOf(NameableRaw)

\* the values the program assigns: strings, null and undefined
Str(v) == [t |-> "string", v |-> v]
NullValue == [t |-> "null", v |-> ""]
Undefined == [t |-> "undefined", v |-> ""]
Nullish == {NullValue, Undefined}
Assigned == {Str("Cheeky"), Str("Monkey"), Str("")} \cup Nullish

\* !it
Not(it) == it.t # "string" \/ it.v = ""

\* ${it} in a template literal
TemplateText(it) == IF it.t = "string" THEN it.v ELSE it.t

Setters == {"firstName", "lastName"}
CheckOf(setter) == IF setter = "firstName" THEN "checkFirstName" ELSE "checkLastName"
FieldOf(setter) == IF setter = "firstName" THEN "_firstName" ELSE "_lastName"
CheckNames == {CheckOf(n) : n \in Setters}

\* the class has the accessors of Nameable on its chain
IsNameable(cl, c) == lookup(cl, Inst(c), "firstName") # Null

\* new c(): every constructor on the chain assigns '' to its fields
New(cl, c) == [cls |-> c, vals |-> [n \in DOMAIN construct(cl, c) |-> Str("")]]

\* the body of check<First|Last>Name in class c: the one of Nameable returns
\* what it is given, the one a declared class overrides it with throws
\* Error('nothing given') for a falsy value
checkName(cl, c, it) ==
    IF cl[c].appliedTrait = NameableRaw THEN [err |-> "none", val |-> it]
    ELSE IF Not(it) THEN [err |-> "nothing given", val |-> it]
    ELSE [err |-> "none", val |-> it]

\* a setter that calls the check method of the class that defines the setter
setNameOwnCheck(cl, obj, setter, it) ==
    LET owner == lookup(cl, Inst(obj.cls), setter)
        r     == checkName(cl, owner, it)
    IN  IF r.err # "none" THEN [obj |-> obj, err |-> r.err]
        ELSE [obj |-> [obj EXCEPT !.vals[FieldOf(setter)] = r.val], err |-> "none"]

\* obj.firstName = it, obj.lastName = it:
\* this._firstName = this.checkFirstName(it)
setName(cl, obj, setter, it) ==
    LET owner == lookup(cl, Inst(obj.cls), CheckOf(setter))
        r     == checkName(cl, owner, it)
    IN  IF r.err # "none" THEN [obj |-> obj, err |-> r.err]
        ELSE [obj |-> [obj EXCEPT !.vals[FieldOf(setter)] = r.val], err |-> "none"]

\* obj.firstName, obj.lastName
getName(obj, getter) == obj.vals[FieldOf(getter)]

\* obj.fullName
fullName(obj) ==
    TemplateText(obj.vals["_firstName"]) \o " " \o TemplateText(obj.vals["_lastName"])

InitNameable ==
    /\ fns = NameableFns.F
    /\ exported = {NameableRaw, Nameable}
    /\ classes = (ObjectCls :> NewClass(Null, Null))
    /\ last = Op("init", <<>>, Null, Null)
    /\ wrapOrder = NoWraps
    /\ me = NoObject
    /\ running = <<>>

\* const me = new c()
DoNew(c) ==
    /\ IsNameable(classes, c)
    /\ me' = New(classes, c)
    /\ last' = Op("new", <<>>, c, c)
    /\ UNCHANGED <<fns, exported, classes, wrapOrder, running>>

\* me.firstName = it or me.lastName = it
DoAssign(setter, it) ==
    /\ me.cls # Null
    /\ LET a == setName(classes, me, setter, it)
       IN  /\ me' = a.obj
           /\ last' = Op(IF a.err = "none" THEN "set" ELSE "throw",
                         <<setter>>, me.cls, Null)
    /\ UNCHANGED <<fns, exported, classes, wrapOrder, running>>

NextNameable ==
    \/ Returned("trait", <<Nameable>>, Null, trait(classes, <<Nameable>>))
    \/ \E p \in UserClasses(classes), ms \in SUBSET CheckNames :
          DeclareClass(p, ms, {})
    \/ \E c \in UserClasses(classes) : DoNew(c)
    \/ \E setter \in Setters, it \in Assigned : DoAssign(setter, it)

SpecNameable == InitNameable /\ [][NextNameable]_vars

---------------------------------------------------------------------------
(* Calls of a Cached wrapper taken step by step *)

\* A wrapper made by Cached runs in two steps with the call of the trait
\* between them: the lookup (lines 151-157) and, when it found nothing, the
\* insert of what the trait returned (lines 160-161).  The language runs one
\* call at a time, so a second call can only start between the two steps of
\* the first: from inside the trait function the first one is calling.  The
\* calls that have looked up and not inserted yet form a stack.

\* const F = Cached(f), where the body of f may call F before it returns its
\* class
RaceFns == Cached([t \in RawFns |-> NewFunction], << <<"f", 0>> >>).F

RaceTraits == {Append(<< <<"f", 0>> >>, <<"cached", 1>>)}

\* the first step: superclass[_cachedApplications], created when there is
\* none, and cachedApplications.get(trait)
CachedLookup(cl, t, s) ==
    LET key   == Inner(t)
        found == CacheOwner(cl, s)
        owner == IF found = Null THEN s ELSE found
        cl1   == IF found = Null THEN [cl EXCEPT ![s].hasCache = TRUE] ELSE cl
        map   == cl1[owner].cache
    IN  [cls |-> cl1, owner |-> owner, hit |-> key \in DOMAIN map,
         res |-> IF key \in DOMAIN map THEN map[key] ELSE Null]

\* a second step that looks again and keeps the entry it finds
CachedInsertKeepsEntry(cl, fr) ==
    LET key   == Inner(fr.t)
        a     == Call(cl, key, fr.s, fr.t)
    IN  IF key \in DOMAIN cl[fr.owner].cache
        THEN [cls |-> cl, res |-> cl[fr.owner].cache[key]]
        ELSE [cls |-> [a.cls EXCEPT ![fr.owner].cache = MapSet(@, key, a.res)],
              res |-> a.res]

\* the second step, for the call fr = [t, s, owner] that found nothing:
\* application = trait(superclass); cachedApplications.set(trait, application)
CachedInsert(cl, fr) ==
    LET key   == Inner(fr.t)
        a     == Call(cl, key, fr.s, fr.t)
    IN  [cls |-> [a.cls EXCEPT ![fr.owner].cache = MapSet(@, key, a.res)],
         res |-> a.res]

\* stack: the calls between their two steps, the innermost last; done: the
\* calls that returned, with their result; nested: a call has started while
\* another had not returned
NoCalls == [stack |-> <<>>, done |-> {}, nested |-> FALSE]

Returns(t, s, res) == [t |-> t, s |-> s, res |-> res]

InitRace ==
    /\ fns = RaceFns
    /\ exported = RawFns \cup RaceTraits
    /\ classes = (ObjectCls :> NewClass(Null, Null))
    /\ last = Op("init", <<>>, Null, Null)
    /\ wrapOrder = NoWraps
    /\ me = NoObject
    /\ running = NoCalls

\* t(s) is called, by the program or by the trait function of the innermost
\* call, and takes its first step; it returns at once when it finds an entry
RaceBegin(t, s) ==
    LET lk == CachedLookup(classes, t, s)
    IN  /\ Len(running.stack) < MaxDepth
        /\ classes' = lk.cls
        /\ running' =
              [stack  |-> IF lk.hit THEN running.stack
                          ELSE Append(running.stack,
                                      [t |-> t, s |-> s, owner |-> lk.owner]),
               done   |-> IF lk.hit THEN running.done \cup {Returns(t, s, lk.res)}
                          ELSE running.done,
               nested |-> running.nested \/ running.stack # <<>>]
        /\ last' = Op(IF lk.hit THEN "hit" ELSE "lookup", <<t>>, s, lk.res)
        /\ UNCHANGED <<fns, exported, wrapOrder, me>>

\* the trait function of the innermost call returns its class, and the call
\* takes its second step and returns
RaceFinish ==
    /\ running.stack # <<>>
    /\ LET n  == Len(running.stack)
           fr == running.stack[n]
           a  == CachedInsert(classes, fr)
       IN  /\ UserClasses(a.cls) \subseteq ClsIds
           /\ classes' = a.cls
           /\ running' = [running EXCEPT
                             !.stack = SubSeq(running.stack, 1, n - 1),
                             !.done = @ \cup {Returns(fr.t, fr.s, a.res)}]
           /\ last' = Op("insert", <<fr.t>>, fr.s, a.res)
    /\ UNCHANGED <<fns, exported, wrapOrder, me>>

NextRace ==
    \/ \E p \in {Null} \cup UserClasses(classes) : DefineClass(p)
    \/ \E t \in RaceTraits, s \in UserClasses(classes) : RaceBegin(t, s)
    \/ RaceFinish

SpecRace == InitRace /\ [][NextRace]_vars

---------------------------------------------------------------------------
(* wrap() called directly on functions of the program, in any order *)

PlainFns == { << <<"p", i>> >> : i \in 1..MaxPlain }

\* the function objects on the prototype chain of x, x included
RECURSIVE FnChain(_, _)
FnChain(F, x) == IF x = NoFn THEN {} ELSE {x} \cup FnChain(F, F[x].proto)

\* wrap(t, w).  Object.setPrototypeOf throws on a cyclic chain, and
\* then nothing changes.  wrapOrder.inner: the functions that have been a
\* `trait` argument; wrapOrder.late: the wrappers that already were one when
\* they were wrapped around their trait (layers not built inside-out).
WrapFns(t, w) ==
    /\ w \notin FnChain(fns, t)
    /\ fns' = wrap(fns, t, w)
    /\ last' = Op("wrap", <<t, w>>, Null, Null)
    /\ wrapOrder' =
           [inner |-> wrapOrder.inner \cup {t},
            late  |-> wrapOrder.late \cup (wrapOrder.inner \cap {w})]
    /\ UNCHANGED <<exported, classes, me, running>>

InitWrap ==
    /\ fns = [t \in PlainFns |-> NewFunction]
    /\ exported = PlainFns
    /\ classes = (ObjectCls :> NewClass(Null, Null))
    /\ last = Op("init", <<>>, Null, Null)
    /\ wrapOrder = NoWraps
    /\ me = NoObject
    /\ running = <<>>

NextWrap == \E t, w \in PlainFns : WrapFns(t, w)

SpecWrap == InitWrap /\ [][NextWrap]_vars

---------------------------------------------------------------------------
(* Vocabulary of the properties *)

\* the original function a decorated trait was made from
RawOf(t) == <<t[1]>>

\* nthPrototypeOf of the test suite (n >= 1): the object n steps up the
\* prototype chain of `it`; null once the chain has ended
RECURSIVE nthPrototypeOf(_, _, _)
nthPrototypeOf(cl, it, n) ==
    LET proto == IF it.k = "null" THEN NullVal ELSE getPrototypeOf(cl, it)
    IN  IF n = 1 \/ proto.k = "null" THEN proto
        ELSE nthPrototypeOf(cl, proto, n - 1)

\* the object n >= 0 steps up the chain that starts at `it` itself
Up(cl, it, n) == IF n = 0 THEN it ELSE nthPrototypeOf(cl, it, n)

\* the classes whose prototype objects are on the chain that starts at `it`
RECURSIVE Surfaces(_, _)
Surfaces(cl, it) ==
    IF it.k = "null" THEN {}
    ELSE (IF it.k = "proto" THEN {it.c} ELSE {})
             \cup Surfaces(cl, getPrototypeOf(cl, it))

\* the chain of `it` holds an application of the trait whose original is f
HasApplication(cl, it, f) ==
    \E c \in Surfaces(cl, it) : cl[c].appliedTrait = f

\* class c is b or has b in its superclass chain
RECURSIVE Extends(_, _, _)
Extends(cl, c, b) ==
    IF c = Null THEN FALSE
    ELSE IF c = b THEN TRUE
    ELSE Extends(cl, cl[c].ctorParent, b)

\* the heap after  class C extends p {}  and the new class
Subclass(cl, p) == cl @@ (NextCls(cl) :> NewClass(p, p))

CachedFns == {t \in DOMAIN fns : Kind(t) = "cached"}
DedupeFns == {t \in DOMAIN fns : Kind(t) = "dedupe"}

\* the calls in `log` of function f with argument s
CallsOf(log, f, s) == {i \in DOMAIN log : log[i].f = f /\ log[i].s = s}

\* the calls in `log` made by function t
CallsBy(log, t) == {i \in DOMAIN log : log[i].by = t}

---------------------------------------------------------------------------
(* The claims *)

\* C1: for a Cached or Trait-decorated trait T and two distinct bases B1, B2
\* (B2 may be a subclass of B1) that do not express T, T(B1) and T(B2) are two
\* different classes, each built on its own base, and each is returned again
\* by every later application of T to the same base.
C1_CachePerBase ==
    \A t \in CachedFns \cup DedupeFns :
      \A b1, b2 \in UserClasses(classes) :
        (/\ b1 # b2
         /\ ~HasApplication(classes, Proto(b1), RawOf(t))
         /\ ~HasApplication(classes, Proto(b2), RawOf(t)))
        => LET r1 == Call(classes, t, b1, NoFn)
               r2 == Call(r1.cls, t, b2, NoFn)
               r3 == Call(r2.cls, t, b1, NoFn)
               r4 == Call(r3.cls, t, b2, NoFn)
           IN  /\ r1.res # r2.res
               /\ r4.cls[r1.res].ctorParent = b1
               /\ r4.cls[r2.res].ctorParent = b2
               /\ r3.res = r1.res
               /\ r4.res = r2.res

\* C2: superclass(B).expressing(T1, ..., Tn) with Trait-decorated traits
\* returns B itself or a class that has B in its superclass chain, whatever
\* was applied before.
C2_ExpressingExtendsBase ==
    \A s \in UserClasses(classes), ts \in TraitLists :
        LET r == expressing(superclass(classes, s), ts)
        IN  Extends(r.cls, r.res, s)

\* C3: every instance of a class that extends
\* superclass(B).expressing(T1, ..., Tn) expresses each of T1, ..., Tn.
C3_ExpressingExpressesAll ==
    \A s \in UserClasses(classes), ts \in TraitLists :
        LET r == expressing(superclass(classes, s), ts)
            cl == Subclass(r.cls, r.res)
        IN  \A i \in DOMAIN ts : expresses(cl, Inst(NextCls(r.cls)), ts[i])

\* Tn(...T1(s)...), written as the nested calls
RECURSIVE Nested(_, _, _)
Nested(cl, s, ts) ==
    IF ts = <<>> THEN Done(cl, s, <<>>)
    ELSE LET n == Len(ts)
             a == Nested(cl, s, SubSeq(ts, 1, n - 1))
         IN  Call(a.cls, ts[n], a.res, NoFn)

\* C4: for distinct traits T1, ..., Tn that B does not express,
\* superclass(B).expressing(T1, ..., Tn) equals Tn(...T1(B)...), and walking up
\* from the prototype of the returned class one meets the application of Tn,
\* then of Tn-1, ..., then of T1, and then the prototype of B.
C4_BuilderOrder ==
    \A s \in UserClasses(classes), ts \in TraitLists :
        (/\ \A i \in DOMAIN ts : ~HasApplication(classes, Proto(s), RawOf(ts[i]))
         /\ \A i, j \in DOMAIN ts : i # j => RawOf(ts[i]) # RawOf(ts[j]))
        => LET r == expressing(superclass(classes, s), ts)
               n == Len(ts)
           IN  /\ r.res = Nested(classes, s, ts).res
               /\ \A i \in 1..n :
                    isTraitificationOf(r.cls,
                        Up(r.cls, Proto(r.res), i - 1), ts[n + 1 - i])
               /\ Up(r.cls, Proto(r.res), n) = Proto(s)

\* C5: for a trait T wrapped with Cached and a base B, calling Cached(T)(B)
\* twice returns the identical class both times, and T is invoked exactly
\* once with B.  (B: any class newly defined on any existing class or on none.)
C5_CachedIdempotent ==
    \A t \in CachedFns, p \in {Null} \cup UserClasses(classes) :
        LET b  == NextCls(classes)
            cl == classes @@ (b :> NewClass(p, IF p = Null THEN ObjectCls ELSE p))
            r1 == Call(cl, t, b, NoFn)
            r2 == Call(r1.cls, t, b, NoFn)
        IN  /\ r1.res = r2.res
            /\ Cardinality(CallsOf(r1.log \o r2.log, Inner(t), b)) = 1

\* C6: when the chain of B holds an application of T, directly or through
\* intermediate subclasses, Dedupe(T)(B) returns B itself and makes no call
\* at all; otherwise it calls the wrapped trait once with B and returns its
\* result.  So T(T(B0)) calls the wrapped trait once, and for
\* T = Dedupe(BareTrait(f)) the body of f runs once.
C6_DedupeIdempotent ==
    \A t \in DedupeFns, s \in UserClasses(classes) :
        LET f == RawOf(t)
            r == Call(classes, t, s, NoFn)
            r2 == Call(r.cls, t, r.res, NoFn)
            both == r.log \o r2.log
        IN  IF HasApplication(classes, Proto(s), f)
            THEN /\ r.res = s
                 /\ r.cls = classes
                 /\ r.log = <<Event(t, s, s, NoFn)>>
            ELSE /\ Cardinality(CallsBy(r.log, t)) = 1
                 /\ \A i \in CallsBy(r.log, t) :
                        r.log[i] = Event(Inner(t), s, r.res, t)
                 /\ HasApplication(r.cls, Proto(r.res), f) =>
                        /\ r2.res = r.res
                        /\ Cardinality(CallsBy(both, t)) = 1
                        /\ Cardinality({i \in DOMAIN both : both[i].f = f}) <= 1
                        /\ Kind(Inner(t)) = "bare" =>
                               Cardinality({i \in DOMAIN both : both[i].f = f}) = 1

\* a Dedupe-decorated trait was applied to a class that is not itself an
\* application but subclasses one, and returned that class
C6_Witness ==
    /\ last.op = "call"
    /\ Kind(last.ts[1]) = "dedupe"
    /\ last.res = last.s
    /\ classes[last.s].appliedTrait = NoFn
    /\ HasApplication(classes, Proto(last.s), RawOf(last.ts[1]))

\* C7: isTraitificationOf(apply(B, T).prototype, T) is true, and
\* isTraitificationOf(apply(B, T).prototype, U) is false for every U made from
\* another original function than T.
C7_ApplyMarks ==
    \A t \in DOMAIN fns, s \in UserClasses(classes) :
        LET a == apply(classes, s, t, NoFn)
        IN  /\ isTraitificationOf(a.cls, Proto(a.res), t)
            /\ \A u \in DOMAIN fns :
                   RawOf(u) # RawOf(t) =>
                       ~isTraitificationOf(a.cls, Proto(a.res), u)

\* apply(B, T) has returned, and the program holds a trait made from another
\* function
C7_Witness ==
    /\ last.op = "apply"
    /\ isTraitificationOf(classes, Proto(last.res), last.ts[1])
    /\ \E u \in Decorators :
          /\ RawOf(u) # RawOf(last.ts[1])
          /\ ~isTraitificationOf(classes, Proto(last.res), u)

\* null, the instances and the prototype objects
Vals(cl) == {NullVal} \cup {Inst(c) : c \in DOMAIN cl} \cup {Proto(c) : c \in DOMAIN cl}

\* C8: expresses(v, T) terminates (the chain of v ends), and is true exactly
\* when an object on the chain that starts at v carries the original of T as
\* its own marker: true for an instance of apply(B, T) and of the classes that
\* subclass it, false for null and when the chain is exhausted.
C8_Expresses ==
    /\ \A v \in Vals(classes) :
          nthPrototypeOf(classes, v, Cardinality(DOMAIN classes) + 1) = NullVal
    /\ \A v \in Vals(classes), t \in DOMAIN fns :
          expresses(classes, v, t) <=> HasApplication(classes, v, RawOf(t))
    /\ \A t \in exported, s \in UserClasses(classes) :
          LET a   == apply(classes, s, t, NoFn)
              c1  == NextCls(a.cls)
              cl1 == Subclass(a.cls, a.res)
              c2  == NextCls(cl1)
              cl2 == Subclass(cl1, c1)
          IN  /\ expresses(cl2, Inst(a.res), t)
              /\ expresses(cl2, Inst(c1), t)
              /\ expresses(cl2, Inst(c2), t)

\* an instance of a class that is not an application and subclasses one
\* expresses the trait, and another value with a chain does not
C8_Witness ==
    /\ \E c \in UserClasses(classes), t \in Decorators :
          /\ classes[c].appliedTrait = NoFn
          /\ expresses(classes, Inst(c), t)
          /\ isTraitificationOf(classes, nthPrototypeOf(classes, Inst(c), 2), t)
    /\ \E c \in UserClasses(classes), t \in Decorators :
          ~expresses(classes, Inst(c), t)

\* the function at the end of the prototype chain of x
Bottom(F, x) == CHOOSE y \in FnChain(F, x) : F[y].proto = NoFn

\* C9: unwrap(wrap(T, W)) is the unwrapped form of T, and through any number
\* of layers built inside-out unwrap(Wk) is the original function T.
C9_UnwrapRoundTrip ==
    /\ (last.op = "wrap" /\ last.ts[2] \notin wrapOrder.late) =>
           unwrap(fns, last.ts[2]) = unwrap(fns, last.ts[1])
    /\ \A x \in DOMAIN fns :
           FnChain(fns, x) \cap wrapOrder.late = {} =>
               unwrap(fns, x) = Bottom(fns, x)

\* two layers have been wrapped inside-out around a function
C9_Witness ==
    /\ last.op = "wrap"
    /\ wrapOrder.late = {}
    /\ Cardinality(FnChain(fns, last.ts[2])) = 3
    /\ unwrap(fns, last.ts[2]) = Bottom(fns, last.ts[2])

\* C10: two wrappers T1, T2 around the same original function f are the same
\* trait: isTraitificationOf and expresses answer for each of them what they
\* answer for f, hence the same for both; a Dedupe-decorated T2 applied to
\* T1(B) returns T1(B) unchanged, and the instances of T1(B) are instances
\* of T2.
C10_SameTrait ==
    /\ \A t \in DOMAIN fns, v \in Vals(classes) \ {NullVal} :
          /\ isTraitificationOf(classes, v, t)
                 = isTraitificationOf(classes, v, RawOf(t))
          /\ expresses(classes, v, t) = expresses(classes, v, RawOf(t))
    /\ \A t1 \in Decorators, t2 \in Decorators \cap DedupeFns :
          RawOf(t1) = RawOf(t2) =>
              \A s \in UserClasses(classes) :
                  LET a == Call(classes, t1, s, NoFn)
                      b == Call(a.cls, t2, a.res, NoFn)
                  IN  /\ expresses(a.cls, Proto(a.res), t2)
                      /\ ~HasApplication(classes, Proto(s), RawOf(t1)) =>
                             isTraitificationOf(a.cls, Proto(a.res), t2)
                      /\ b.res = a.res
                      /\ b.cls = a.cls
                      /\ instanceOf(a.cls, Inst(a.res), t2)

\* a Trait-decorated T2 was applied to a class that another decoration T1 of
\* the same function had produced, and returned it
C10_Witness ==
    /\ last.op = "call"
    /\ Kind(last.ts[1]) = "dedupe"
    /\ last.res = last.s
    /\ isTraitificationOf(classes, Proto(last.s), last.ts[1])
    /\ instanceOf(classes, Inst(last.s), last.ts[1])
    /\ \E c \in DOMAIN classes :
          \E k \in DOMAIN classes[c].cache :
              /\ classes[c].cache[k] = last.s
              /\ RawOf(k) = RawOf(last.ts[1])
              /\ k # Inner(Inner(last.ts[1]))

\* C11: for T = HasInstance(X), v instanceof T is true exactly when the
\* [Symbol.hasInstance] X had or inherited before the decoration answers true
\* for v or expresses(v, T) is true; with no custom method before, and so
\* for a Trait-decorated T, it is exactly expresses(v, T).
C11_HasInstance ==
    \A t \in DOMAIN fns :
        fns[t].hasInstance =>
            \A v \in Vals(classes) :
                LET prior == fns[t].priorHasInstance
                IN  /\ instanceOf(classes, v, t) <=>
                           \/ prior # NoFn /\ instanceOf(classes, v, prior)
                           \/ expresses(classes, v, t)
                    /\ prior = NoFn =>
                           (instanceOf(classes, v, t) <=> expresses(classes, v, t))

\* a class expresses a trait, and a wrapper of the trait decorated with
\* HasInstance inherited the custom method of an earlier decoration
C11_Witness ==
    \E t \in DOMAIN fns :
        /\ fns[t].hasInstance
        /\ fns[t].priorHasInstance # NoFn
        /\ \E c \in UserClasses(classes) : instanceOf(classes, Inst(c), t)
        /\ \E c \in UserClasses(classes) : ~instanceOf(classes, Inst(c), t)

\* v instanceof c for a class c: c.prototype is on the chain above v
instanceOfClass(cl, it, c) ==
    it.k # "null" /\ c \in Surfaces(cl, getPrototypeOf(cl, it))

\* C12: with Subtrait applying Supertrait1 and Supertrait2 in its body and
\* class C extends trait(Subtrait), an instance of C is an instance of C, of
\* Subtrait, of Supertrait1 and of Supertrait2, whatever the program did
\* before.
C12_DiamondTypeChecks ==
    LET a  == trait(classes, <<Subtrait>>)
        C  == NextCls(a.cls)
        cl == Subclass(a.cls, a.res)
    IN  /\ a.err = "none"
        /\ instanceOfClass(cl, Inst(C), C)
        /\ instanceOf(cl, Inst(C), Subtrait)
        /\ instanceOf(cl, Inst(C), Supertrait1)
        /\ instanceOf(cl, Inst(C), Supertrait2)

\* trait(Subtrait) has returned a class, whose instances pass the three
\* type checks
C12_Witness ==
    /\ last.op = "traits"
    /\ last.ts = <<Subtrait>>
    /\ classes[last.res].appliedTrait = << <<"sub", 0>> >>
    /\ instanceOf(classes, Inst(last.res), Subtrait)
    /\ instanceOf(classes, Inst(last.res), Supertrait1)
    /\ instanceOf(classes, Inst(last.res), Supertrait2)

\* C13: for Base -> T(Base) -> Subclass with T = BareTrait(f): a method or
\* field of Subclass wins over T's, one of T wins over Base's, what only
\* Base or only T defines is reached from an instance of Subclass, and
\* super.m() in a method of T reaches what Base answers for m, not T's own.
C13_MemberResolution ==
    \A T \in {t \in Decorators : Kind(t) = "bare"}, Base \in UserClasses(classes) :
        \A ms \in SUBSET MethodNames :
            LET a   == Call(classes, T, Base, NoFn)
                TB  == a.res
                C   == NextCls(a.cls)
                cl  == a.cls @@ (C :> [NewClass(TB, TB) EXCEPT
                                          !.methods = ms, !.fields = FieldsWith(ms)])
                f   == RawOf(T)
                obj == construct(cl, C)
            IN  /\ a.err = "none"
                /\ \A n \in MethodNames :
                      /\ n \in ms => lookup(cl, Inst(C), n) = C
                      /\ (n \in Methods(f) /\ n \notin ms) =>
                             lookup(cl, Inst(C), n) = TB
                      /\ (n \in classes[Base].methods /\ n \notin ms \cup Methods(f)) =>
                             lookup(cl, Inst(C), n) = Base
                      /\ n \in Methods(f) =>
                             /\ superLookup(cl, TB, n) # TB
                             /\ superLookup(cl, TB, n) = lookup(classes, Proto(Base), n)
                             /\ n \in classes[Base].methods =>
                                    superLookup(cl, TB, n) = Base
                /\ \A n \in FieldNames :
                      /\ n \in FieldsWith(ms) => obj[n] = C
                      /\ (n \in Fields(f) /\ n \notin FieldsWith(ms)) => obj[n] = TB
                      /\ (n \in classes[Base].fields
                             /\ n \notin FieldsWith(ms) \cup Fields(f)) => obj[n] = Base

\* a class was declared on T(Base): it defines foo, as T and Base do, and
\* leaves bar to Base
C13_Witness ==
    /\ last.op = "class"
    /\ last.s # Null
    /\ classes[last.s].appliedTrait # NoFn
    /\ LET Base == classes[last.s].protoParent
       IN  /\ Base \in UserClasses(classes)
           /\ "foo" \in classes[last.res].methods
           /\ "foo" \in classes[last.s].methods
           /\ {"foo", "bar"} \subseteq classes[Base].methods
           /\ "bar" \notin classes[last.res].methods
           /\ lookup(classes, Inst(last.res), "foo") = last.res
           /\ lookup(classes, Inst(last.res), "bar") = Base
           /\ superLookup(classes, last.s, "foo") = Base
           /\ construct(classes, last.res)["field"] = last.res

\* the class on the chain above `it` that is the application of the trait
\* whose original is f, Null when there is none
AppOf(cl, it, f) ==
    IF HasApplication(cl, it, f)
    THEN CHOOSE c \in Surfaces(cl, it) : cl[c].appliedTrait = f
    ELSE Null

\* C14: with Subtrait applying (Supertrait1, Supertrait2) in that order and
\* C extending trait(Subtrait), a method resolves with precedence C over
\* Subtrait over Supertrait2 over Supertrait1, and what only Supertrait1 or
\* only Supertrait2 defines is reached from an instance of C.
C14_DiamondMembers ==
    LET a  == trait(classes, <<Subtrait>>)
        C  == NextCls(a.cls)
        cl == a.cls @@ (C :> [NewClass(a.res, a.res) EXCEPT !.methods = {"snafu"}])
        i  == Inst(C)
        Sub == AppOf(cl, i, << <<"sub", 0>> >>)
        S2  == AppOf(cl, i, << <<"s2", 0>> >>)
        S1  == AppOf(cl, i, << <<"s1", 0>> >>)
    IN  /\ a.err = "none"
        /\ Cardinality({C, Sub, S2, S1, Null}) = 5
        /\ lookup(cl, i, "snafu") = C
        /\ lookup(cl, i, "bar") = Sub
        /\ lookup(cl, i, "foo") = S2
        /\ lookup(cl, i, "foo2") = S2
        /\ lookup(cl, i, "foo1") = S1
        /\ lookup(cl, i, "bleep") = S1
        /\ superLookup(cl, C, "snafu") = Sub
        /\ superLookup(cl, Sub, "snafu") = S2
        /\ superLookup(cl, S2, "snafu") = S1

\* trait(Subtrait) has returned a class whose instances take bar from
\* Subtrait, foo from Supertrait2 and bleep from Supertrait1
C14_Witness ==
    /\ last.op = "traits"
    /\ last.ts = <<Subtrait>>
    /\ lookup(classes, Inst(last.res), "bar") = last.res
    /\ lookup(classes, Inst(last.res), "foo")
           = AppOf(classes, Inst(last.res), << <<"s2", 0>> >>)
    /\ lookup(classes, Inst(last.res), "bleep")
           = AppOf(classes, Inst(last.res), << <<"s1", 0>> >>)
    /\ AppOf(classes, Inst(last.res), << <<"s1", 0>> >>) \in UserClasses(classes)
    /\ AppOf(classes, Inst(last.res), << <<"s2", 0>> >>) \in UserClasses(classes)

\* C15: Supertrait1 and Supertrait2 each apply the Trait-decorated Common in
\* their body.  For a base B to which Common has not been applied, after
\* Supertrait1(B) and Supertrait2(B) both results extend one identical class,
\* the application of Common to B, and the raw body of Common was invoked
\* exactly once with B.  B is a class of the program or a class newly
\* declared on one.
C15_SharedCommonTrait ==
    \A p \in UserClasses(classes), fresh \in BOOLEAN :
        LET k   == << <<"k", 0>> >>
            cl0 == IF fresh THEN Subclass(classes, p) ELSE classes
            B   == IF fresh THEN NextCls(classes) ELSE p
            a1  == Call(cl0, Supertrait1, B, NoFn)
            a2  == Call(a1.cls, Supertrait2, B, NoFn)
            KB  == a2.cls[a1.res].protoParent
            log == a1.log \o a2.log
        IN  (/\ ~HasApplication(cl0, Proto(B), k)
             /\ ~\E x \in DOMAIN cl0 :
                    cl0[x].appliedTrait = k /\ cl0[x].protoParent = B)
            => /\ a2.cls[a2.res].protoParent = KB
               /\ a2.cls[KB].appliedTrait = k
               /\ a2.cls[KB].protoParent = B
               /\ Cardinality({i \in DOMAIN log : log[i].f = k /\ log[i].s = B}) = 1

\* no superclass chain of the heap holds two prototype objects whose own
\* marker is the same trait
NoDoubleLayer(cl) ==
    \A c \in DOMAIN cl :
        \A x, y \in Surfaces(cl, Proto(c)) :
            (x # y /\ cl[x].appliedTrait # NoFn) =>
                cl[x].appliedTrait # cl[y].appliedTrait

\* C16: in every class hierarchy reached by applying Trait-decorated traits,
\* traits whose bodies apply shared supertraits and builder calls included, no
\* superclass chain holds two prototype objects marked with the same trait;
\* nor does one after a further call of any trait on any class.
C16_NoDoubleLayering ==
    /\ NoDoubleLayer(classes)
    /\ \A t \in DiamondTraits, s \in UserClasses(classes) :
          NoDoubleLayer(Call(classes, t, s, NoFn).cls)

\* Subtrait was applied to a class: both supertraits are on the chain of the
\* result, and the common trait both of them apply is there once
C16_Witness ==
    /\ last.op = "call"
    /\ last.ts = <<Subtrait>>
    /\ AppOf(classes, Proto(last.res), << <<"s1", 0>> >>) # Null
    /\ AppOf(classes, Proto(last.res), << <<"s2", 0>> >>) # Null
    /\ Cardinality({c \in Surfaces(classes, Proto(last.res)) :
                       classes[c].appliedTrait = << <<"k", 0>> >>}) = 1

\* every cache entry of this state is the same in the next state
CacheRetained ==
    \A c \in DOMAIN classes :
        \A k \in DOMAIN classes[c].cache :
            /\ c \in DOMAIN classes'
            /\ k \in DOMAIN classes'[c].cache
            /\ classes'[c].cache[k] = classes[c].cache[k]

\* a Cached trait called on a base whose lookup finds an entry for it returns
\* the class of the entry, constructs nothing and calls nothing
CacheAnswers ==
    \A t \in CachedFns, B \in UserClasses(classes) :
        LET owner == CacheOwner(classes, B)
            r     == Call(classes, t, B, NoFn)
        IN  (owner # Null /\ Inner(t) \in DOMAIN classes[owner].cache) =>
                /\ r.res = classes[owner].cache[Inner(t)]
                /\ r.cls = classes
                /\ CallsBy(r.log, t) = {}

\* C17: a cache entry, once written, is never removed or replaced by any
\* later application of any trait to any class, and the Cached trait keeps
\* returning the class of the entry without constructing another; so a
\* Cached trait constructs at most one class per base.
C17_CacheRetention == [][CacheRetained]_vars /\ []CacheAnswers

\* a Cached trait answered from an entry after another application had been
\* cached in the same Map
C17_Witness ==
    /\ last.op = "call"
    /\ Kind(last.ts[1]) = "cached"
    /\ last.res # NextCls(classes) - 1
    /\ LET owner == CacheOwner(classes, last.s)
       IN  /\ owner # Null
           /\ Cardinality(DOMAIN classes[owner].cache) = 2
           /\ classes[owner].cache[Inner(last.ts[1])] = last.res

\* C18: when the trait function under Cached(T) throws in Cached(T)(B), the
\* caller gets that error, no cache entry is written (for T and B or any
\* other), and the next Cached(T)(B) invokes the trait function again.
C18_CachedFailure ==
    \A t \in CachedFns, B \in UserClasses(classes) :
        RawOf(t) = Boom =>
            LET r     == Call(classes, t, B, NoFn)
                r2    == Call(r.cls, t, B, NoFn)
                owner == CacheOwner(r.cls, B)
            IN  /\ r.err = "boom"
                /\ DOMAIN r.cls = DOMAIN classes
                /\ \A c \in DOMAIN classes : r.cls[c].cache = classes[c].cache
                /\ owner # Null /\ Inner(t) \notin DOMAIN r.cls[owner].cache
                /\ r2.err = "boom"
                /\ \E i \in DOMAIN r2.log : r2.log[i].f = Boom /\ r2.log[i].s = B

\* Cached(boom)(B) has thrown: B got its Map, and the Map is empty
C18_Witness ==
    /\ last.op = "throw"
    /\ Len(last.ts) = 1
    /\ Kind(last.ts[1]) = "cached"
    /\ classes[last.s].hasCache
    /\ DOMAIN classes[last.s].cache = {}

\* the functions made from the throwing trait function
BoomFns == {t \in DOMAIN fns : RawOf(t) = Boom}

\* C19: the error a trait function throws reaches the caller of apply, of a
\* decorated trait and of expressing as it was thrown.  When Tk throws inside
\* expressing(T1, ..., Tn), no later trait is applied, no marker is written
\* and no class made for Tk, and the classes and cache entries T1..Tk-1 made
\* are all still there.
C19_ErrorPropagation ==
    /\ \A t \in BoomFns, s \in UserClasses(classes) :
          LET a == apply(classes, s, t, NoFn)
              c == Call(classes, t, s, NoFn)
          IN  /\ a.err = "boom"
              /\ c.err = "boom"
              /\ DOMAIN a.cls = DOMAIN classes
              /\ \A x \in DOMAIN classes :
                     a.cls[x].appliedTrait = classes[x].appliedTrait
    /\ \A s \in UserClasses(classes), ts \in ErrLists :
          LET k   == CHOOSE i \in 1..Len(ts) : ts[i] \in BoomFns
              pre == expressing(superclass(classes, s), SubSeq(ts, 1, k - 1))
              r   == expressing(superclass(classes, s), ts)
          IN  /\ r.err = "boom"
              /\ pre.err = "none"
              /\ DOMAIN r.cls = DOMAIN pre.cls
              /\ \A x \in DOMAIN pre.cls :
                     /\ r.cls[x].appliedTrait = pre.cls[x].appliedTrait
                     /\ r.cls[x].protoParent = pre.cls[x].protoParent
                     /\ r.cls[x].cache = pre.cls[x].cache
              /\ SubSeq(r.log, 1, Len(pre.log)) = pre.log
              /\ \A i \in DOMAIN r.log, j \in (k + 1)..Len(ts) :
                     RawOf(r.log[i].f) # RawOf(ts[j])

\* expressing(F, Bad) has thrown on a base, and the class F made on the
\* base is in the heap and in a cache
C19_Witness ==
    /\ last.op = "throw"
    /\ Len(last.ts) = 2
    /\ last.ts[2] \in BoomFns
    /\ \E c \in UserClasses(classes) :
          /\ classes[c].appliedTrait = RawOf(last.ts[1])
          /\ classes[c].protoParent = last.s
          /\ \E o \in DOMAIN classes :
                 \E key \in DOMAIN classes[o].cache : classes[o].cache[key] = c

\* C20: a builder made with no (or a falsy) superclass starts from a new
\* empty class without parent class; traits(T1, ..., Tn) gives what
\* superclass().expressing(T1, ..., Tn) gives, and trait(...) what traits(...)
\* gives; above an instance of a class declared on traits(T1, T2), for traits
\* over different functions, come the prototype of the class, T2's
\* application, T1's application, the prototype of the empty root,
\* Object.prototype and null.
C20_BuilderDefaults ==
    /\ \A s \in UserClasses(classes) : superclass(classes, s).res = s
    /\ \A ts \in BuilderLists :
          LET root == superclass(classes, Null)
              R    == root.res
              a    == traits(classes, ts)
              C    == NextCls(a.cls)
              cl   == Subclass(a.cls, a.res)
              i    == Inst(C)
          IN  /\ R \notin DOMAIN classes
              /\ root.cls[R].ctorParent = Null
              /\ root.cls[R].protoParent = ObjectCls
              /\ root.cls[R].appliedTrait = NoFn
              /\ root.cls[R].methods = {} /\ root.cls[R].fields = {}
              /\ a = expressing(superclass(classes, Null), ts)
              /\ trait(classes, ts) = a
              /\ a.err = "none"
              /\ (Len(ts) = 2 /\ RawOf(ts[1]) # RawOf(ts[2])) =>
                     /\ nthPrototypeOf(cl, i, 1) = Proto(C)
                     /\ isTraitificationOf(cl, nthPrototypeOf(cl, i, 2), ts[2])
                     /\ isTraitificationOf(cl, nthPrototypeOf(cl, i, 3), ts[1])
                     /\ nthPrototypeOf(cl, i, 4) = Proto(R)
                     /\ nthPrototypeOf(cl, i, 5) = Proto(ObjectCls)
                     /\ nthPrototypeOf(cl, i, 6) = NullVal

\* traits(T1, T2) has returned: under the result come T1's application, an
\* empty root without parent class, Object.prototype and null
C20_Witness ==
    /\ last.op = "traits"
    /\ Len(last.ts) = 2
    /\ isTraitificationOf(classes, Proto(last.res), last.ts[2])
    /\ isTraitificationOf(classes, nthPrototypeOf(classes, Proto(last.res), 1), last.ts[1])
    /\ LET root == nthPrototypeOf(classes, Proto(last.res), 2)
       IN  /\ root.k = "proto"
           /\ classes[root.c].ctorParent = Null
           /\ classes[root.c].appliedTrait = NoFn
    /\ nthPrototypeOf(classes, Proto(last.res), 3) = Proto(ObjectCls)
    /\ nthPrototypeOf(classes, Proto(last.res), 4) = NullVal

\* the objects a state offers: the one the program made and a new one of
\* every class that has the accessors of Nameable
NameableObjects ==
    (IF me.cls = Null THEN {} ELSE {me})
        \cup {New(classes, c) : c \in {x \in UserClasses(classes) : IsNameable(classes, x)}}

\* the class of obj, or one between it and the application of Nameable,
\* overrides the check method of the setter
Overrides(cl, obj, setter) ==
    LET owner == lookup(cl, Inst(obj.cls), CheckOf(setter))
    IN  owner # Null /\ cl[owner].appliedTrait # NameableRaw

\* C21: with Nameable = Trait(...) and a class Person on trait(Nameable) that
\* overrides the check methods to reject falsy input, the setters of the
\* trait call Person's overrides: after firstName = "Cheeky" and
\* lastName = "Monkey" the getters return these and fullName is
\* "Cheeky Monkey"; assigning null or undefined to either throws and the
\* stored names stay as they were.
C21_Nameable ==
    \A obj \in NameableObjects :
        LET a == setName(classes, obj, "firstName", Str("Cheeky"))
            b == setName(classes, a.obj, "lastName", Str("Monkey"))
        IN  /\ a.err = "none" /\ b.err = "none"
            /\ getName(b.obj, "firstName") = Str("Cheeky")
            /\ getName(b.obj, "lastName") = Str("Monkey")
            /\ fullName(b.obj) = "Cheeky Monkey"
            /\ \A setter \in Setters, it \in Nullish \cup {Str("")} :
                  Overrides(classes, obj, setter) =>
                      /\ setName(classes, b.obj, setter, it).err = "nothing given"
                      /\ setName(classes, b.obj, setter, it).obj = b.obj
                      /\ setName(classes, obj, setter, it).err = "nothing given"
                      /\ setName(classes, obj, setter, it).obj = obj

\* null was assigned to a name of an object of a class that overrides the
\* check on trait(Nameable): it threw and the names are still Cheeky Monkey
C21_Witness ==
    /\ last.op = "throw"
    /\ me.cls # Null
    /\ classes[me.cls].appliedTrait = NoFn
    /\ isTraitificationOf(classes, nthPrototypeOf(classes, Inst(me.cls), 2), Nameable)
    /\ CheckNames \subseteq classes[me.cls].methods
    /\ fullName(me) = "Cheeky Monkey"

\* C22: calling a Cached trait T on class X uses the Map attached to X
\* itself, created when X has none, and writes the new entry there; the Map
\* of every other class, ancestors and descendants of X included, is as it
\* was before the call.
C22_CacheWritesLocal ==
    \A t \in CachedFns, X \in UserClasses(classes) :
        LET r == Call(classes, t, X, NoFn)
        IN  /\ r.cls[X].hasCache
            /\ r.res \notin DOMAIN classes => r.cls[X].cache[Inner(t)] = r.res
            /\ \A c \in (DOMAIN classes) \ {X} :
                  /\ r.cls[c].hasCache = classes[c].hasCache
                  /\ r.cls[c].cache = classes[c].cache

\* the prototype objects whose own marker a call that went from heap cl to
\* outcome r wrote: those of new classes that have one, and those of classes
\* of cl whose marker is another than before
MarkersWritten(cl, r) ==
    {c \in (DOMAIN r.cls) \ (DOMAIN cl) : r.cls[c].appliedTrait # NoFn}
        \cup {c \in DOMAIN cl : r.cls[c].appliedTrait # cl[c].appliedTrait}

\* the number of times apply ran to its end inside the calls of a log: once
\* per call of a BareTrait wrapper
AppliesIn(log) == Cardinality({i \in DOMAIN log : Kind(log[i].f) = "bare"})

\* one marker was written, on the prototype of the returned class, a class
\* that did not exist before, and it names the original of T
OneMarker(cl, r, T, n) ==
    /\ n = 1
    /\ r.res \notin DOMAIN cl
    /\ MarkersWritten(cl, r) = {r.res}
    /\ r.cls[r.res].appliedTrait = RawOf(T)

C24_OwnMarkerOnly ==
    \A B \in UserClasses(classes) :
        /\ \A T \in exported :
              LET a  == apply(classes, B, T, NoFn)
                  C  == NextCls(a.cls)
                  cl == Subclass(a.cls, a.res)
              IN  /\ isTraitificationOf(cl, Proto(a.res), T)
                  /\ ~isTraitificationOf(cl, Proto(C), T)
                  /\ ~isTraitificationOf(cl, Inst(C), T)
                  /\ ~isTraitificationOf(cl, Inst(a.res), T)
                  /\ expresses(cl, Proto(C), T)
                  /\ expresses(cl, Inst(C), T)
        /\ \A ts \in BuilderLists :
              (/\ Len(ts) = 2
               /\ RawOf(ts[1]) # RawOf(ts[2])
               /\ \A i \in 1..2 : ~expresses(classes, Proto(B), ts[i]))
              => LET a1 == Call(classes, ts[1], B, NoFn)
                     r  == expressing(superclass(classes, B), ts)
                 IN  /\ isTraitificationOf(r.cls, Proto(r.res), ts[2])
                     /\ ~isTraitificationOf(r.cls, Proto(r.res), ts[1])
                     /\ isTraitificationOf(r.cls, Proto(a1.res), ts[1])
                     /\ ~isTraitificationOf(r.cls, Proto(a1.res), ts[2])

\* a class was declared on the application of a trait: its prototype and its
\* instances express the trait and are no traitification of it
C24_Witness ==
    /\ last.op = "class"
    /\ last.s # Null
    /\ \E T \in BuilderTraits :
          /\ isTraitificationOf(classes, Proto(last.s), T)
          /\ ~isTraitificationOf(classes, Proto(last.res), T)
          /\ ~isTraitificationOf(classes, Inst(last.res), T)
          /\ expresses(classes, Inst(last.res), T)

\* C25: Trait(f) is HasInstance(Dedupe(Cached(BareTrait(f)))), and a call
\* T(B) runs the dedupe check, then the cache lookup, then the marking
\* application.  When B expresses T nothing else happens: B is returned, no
\* Map is looked up or created, f is not invoked, no marker written.  When
\* the cache lookup finds an entry, its class is returned, f is not invoked
\* and no marker written.  Only when both miss is f invoked, once, its
\* result marked with f and stored in the Map the lookup uses.
C25_LayerOrder ==
    \A T \in Decorators, B \in UserClasses(classes) :
        LET c     == Inner(T)
            b     == Inner(c)
            f     == Inner(b)
            r     == Call(classes, T, B, NoFn)
            owner == CacheOwner(classes, B)
        IN  /\ Kind(T) = "dedupe" /\ Kind(c) = "cached" /\ Kind(b) = "bare"
            /\ Kind(f) = "raw"
            /\ fns[T].hasInstance
            /\ IF HasApplication(classes, Proto(B), f)
               THEN /\ r.res = B
                    /\ r.cls = classes
                    /\ r.log = <<Event(T, B, B, NoFn)>>
               ELSE IF owner # Null /\ b \in DOMAIN classes[owner].cache
               THEN /\ r.res = classes[owner].cache[b]
                    /\ r.cls = classes
                    /\ r.log = <<Event(c, B, r.res, T), Event(T, B, r.res, NoFn)>>
               ELSE /\ r.res \notin DOMAIN classes
                    /\ r.log = <<Event(f, B, r.res, b), Event(b, B, r.res, c),
                                 Event(c, B, r.res, T), Event(T, B, r.res, NoFn)>>
                    /\ MarkersWritten(classes, r) = {r.res}
                    /\ r.cls[r.res].appliedTrait = f
                    /\ LET used == CacheOwner(r.cls, B)
                       IN  /\ used # Null
                           /\ r.cls[used].cache[b] = r.res

\* a Trait-decorated trait was called on a class declared on its own
\* application, whose Map lookup finds the application: the class itself
\* was returned, not the one in the Map
C25_Witness ==
    /\ last.op = "call"
    /\ Kind(last.ts[1]) = "dedupe"
    /\ last.res = last.s
    /\ classes[last.s].appliedTrait = NoFn
    /\ LET owner == CacheOwner(classes, last.s)
           b     == Inner(Inner(last.ts[1]))
       IN  /\ owner # Null
           /\ b \in DOMAIN classes[owner].cache
           /\ classes[owner].cache[b] # last.s

\* the functions that were never the trait and never the wrapper of a wrap
\* call
Untouched == {x \in DOMAIN fns : x \notin wrapOrder.inner /\ fns[x].proto = NoFn}

\* C26: after any sequence of wrap calls, unwrap(unwrap(x)) = unwrap(x) for
\* every function x, unwrap(x) is one of the functions, and unwrap(x) = x for
\* a function that was never wrapped and never used as a wrapper.
C26_UnwrapIdempotent ==
    /\ \A x \in DOMAIN fns :
          /\ unwrap(fns, x) \in DOMAIN fns
          /\ unwrap(fns, unwrap(fns, x)) = unwrap(fns, x)
    /\ \A x \in Untouched : unwrap(fns, x) = x

\* one function was wrapped around another, which unwrap gives for it, and a
\* third function was left alone
C26_Witness ==
    /\ last.op = "wrap"
    /\ unwrap(fns, last.ts[2]) # last.ts[2]
    /\ Cardinality(FnChain(fns, last.ts[2])) = 2
    /\ Untouched # {}

\* C28: after any sequence of wrap(inner, outer) calls that builds no cycle,
\* made in any order, inside-out or outside-in, unwrap(x) is for every
\* function x the innermost function, the one at the end of the delegation
\* chain of x.
C28_WrapOrderIndependence ==
    \A x \in DOMAIN fns : unwrap(fns, x) = Bottom(fns, x)

\* every call of one Cached trait on one class returned the same class
OnePerBase ==
    \A d1, d2 \in running.done :
        (d1.t = d2.t /\ d1.s = d2.s) => d1.res = d2.res

\* C27: the lookup and the insert of Cached are two steps.  When two calls
\* Cached(T)(B) have both looked up before either inserts, both invoke the
\* trait and construct a class, they return different classes, and the later
\* insert replaces the entry of the earlier one: one derived class per base
\* and trait no longer holds.  When every call returns before the next
\* starts, that cannot happen.
C27_CacheRace ==
    /\ \A t \in RaceTraits, s \in UserClasses(classes) :
          LET lk  == CachedLookup(classes, t, s)
              ins == CachedInsert(lk.cls, [t |-> t, s |-> s, owner |-> lk.owner])
              r   == CachedBody(classes, t, s, NoFn)
          IN  IF lk.hit THEN r.res = lk.res /\ r.cls = lk.cls
              ELSE r.res = ins.res /\ r.cls = ins.cls
    /\ ~running.nested => OnePerBase
    /\ \A i \in DOMAIN running.stack :
          LET fr == running.stack[i]
          IN  /\ \A d \in running.done :
                    (d.t = fr.t /\ d.s = fr.s) =>
                        /\ d.res \in DOMAIN classes
                        /\ i = Len(running.stack) =>
                               CachedInsert(classes, fr).res # d.res
              /\ i = Len(running.stack) =>
                    LET a == CachedInsert(classes, fr)
                    IN  /\ a.res \notin DOMAIN classes
                        /\ a.cls[fr.owner].cache[Inner(fr.t)] = a.res

\* two calls of one Cached trait on one class have returned two classes, and
\* the Map holds the one of the call that inserted last
C27_Witness ==
    /\ last.op = "insert"
    /\ running.stack = <<>>
    /\ \E d \in running.done :
          /\ d.t = last.ts[1] /\ d.s = last.s
          /\ d.res # last.res
          /\ classes[d.res].ctorParent = last.s
          /\ classes[last.res].ctorParent = last.s
          /\ classes[CacheOwner(classes, last.s)].cache[Inner(d.t)] = last.res
          /\ \A c \in DOMAIN classes :
                \A k \in DOMAIN classes[c].cache : classes[c].cache[k] # d.res

\* the entries of the Maps of a heap, as <<owner, key>> pairs
Entries(cl) == {<<O, k>> \in (DOMAIN cl) \X (DOMAIN fns) : k \in DOMAIN cl[O].cache}

\* every entry, of class O under key t, is a class that has O in its
\* superclass chain and the original of t as an own marker on its chain
EntriesSound ==
    \A e \in Entries(classes) :
        LET v == classes[e[1]].cache[e[2]]
        IN  /\ v \in UserClasses(classes)
            /\ v # e[1]
            /\ Extends(classes, v, e[1])
            /\ HasApplication(classes, Proto(v), unwrap(fns, e[2]))

\* an entry that a step adds holds a class this step made, marked with the
\* original of its key, and no two entries added hold the same class
EntriesFromInvocation ==
    \A e \in Entries(classes') \ Entries(classes) :
        LET v == classes'[e[1]].cache[e[2]]
        IN  /\ v \notin DOMAIN classes
            /\ classes'[v].appliedTrait = unwrap(fns, e[2])
            /\ \A d \in Entries(classes') \ {e} : classes'[d[1]].cache[d[2]] # v

\* C29: after any sequence of applications of Trait-decorated traits, every
\* entry of every Map, stored on class O under trait key t, is a class that
\* has O in its superclass chain and an own marker for the unwrapped t on its
\* chain, and it is the class that the one invocation of t that created the
\* entry returned: made in the step that added the entry, held by no other
\* entry, and never replaced afterwards.
C29_CacheConsistency ==
    /\ []EntriesSound
    /\ [][EntriesFromInvocation /\ CacheRetained]_vars

\* Subtrait was applied to a class declared on another: the Map the calls
\* found holds the applications of the four traits
C29_Witness ==
    /\ last.op = "call"
    /\ last.ts = <<Subtrait>>
    /\ \E O \in UserClasses(classes) :
          /\ O # last.s
          /\ Extends(classes, last.s, O)
          /\ Cardinality(DOMAIN classes[O].cache) = 4
          /\ classes[O].cache[Inner(Inner(Subtrait))] = last.res

\* the class without parent class at the end of the superclass chain of c
RECURSIVE RootOf(_, _)
RootOf(cl, c) == IF cl[c].ctorParent = Null THEN c ELSE RootOf(cl, cl[c].ctorParent)

\* an empty class without parent class
EmptyRoot(cl, c) ==
    /\ cl[c].ctorParent = Null /\ cl[c].protoParent = ObjectCls
    /\ cl[c].appliedTrait = NoFn /\ ~cl[c].hasCache
    /\ cl[c].methods = {} /\ cl[c].fields = {}

\* C30: every call of traits(...), trait(...) or superclass() without a base
\* makes a new empty root class, so two calls traits(T) return two different
\* classes on two different roots, also for a Cached T; expressing leaves
\* the base stored in the builder as it is, expressing(T) called twice on one
\* builder with a Cached T returns the identical class, and expressing() with
\* no traits returns the stored base itself.
C30_FreshRoot ==
    /\ LET r1 == superclass(classes, Null)
           r2 == superclass(r1.cls, Null)
       IN  /\ r1.res \notin DOMAIN classes /\ EmptyRoot(r1.cls, r1.res)
           /\ r2.res \notin DOMAIN r1.cls /\ EmptyRoot(r2.cls, r2.res)
    /\ \A ts \in {<<t>> : t \in BuilderTraits \cup CachedFns} :
          LET a1 == traits(classes, ts)
              a2 == traits(a1.cls, ts)
              a3 == trait(a2.cls, ts)
          IN  /\ Cardinality({a1.res, a2.res, a3.res}) = 3
              /\ Cardinality({RootOf(a3.cls, a1.res), RootOf(a3.cls, a2.res),
                              RootOf(a3.cls, a3.res)}) = 3
              /\ {RootOf(a3.cls, a1.res), RootOf(a3.cls, a2.res),
                  RootOf(a3.cls, a3.res)} \cap DOMAIN classes = {}
    /\ \A s \in {Null} \cup UserClasses(classes) :
          LET b       == superclass(classes, s)
              builder == Builder(b)
              none    == expressingOn(b.cls, builder, <<>>)
          IN  /\ none.out.res = builder.superclass
              /\ none.out.cls = b.cls
              /\ none.builder = builder
              /\ s # Null => builder.superclass = s
              /\ \A ts \in FreshLists :
                    expressingOn(b.cls, builder, ts).builder = builder
              /\ \A T \in CachedFns \cup DedupeFns :
                    LET e1 == expressingOn(b.cls, builder, <<T>>)
                        e2 == expressingOn(e1.out.cls, e1.builder, <<T>>)
                    IN  /\ e2.out.res = e1.out.res
                        /\ e2.out.cls = e1.out.cls
                        /\ e2.builder = builder

\* traits(U) returned for the second time, U being Trait-decorated and so
\* Cached: two applications of U stand on two empty roots, each in the Map of
\* its root
C30_Witness ==
    /\ last.op = "traits"
    /\ Len(last.ts) = 1
    /\ Kind(last.ts[1]) = "dedupe"
    /\ \E c \in UserClasses(classes) :
          LET R1  == classes[c].ctorParent
              R2  == classes[last.res].ctorParent
              key == Inner(Inner(last.ts[1]))
          IN  /\ c # last.res
              /\ R1 \in UserClasses(classes) /\ R2 \in UserClasses(classes)
              /\ R1 # R2
              /\ classes[R1].ctorParent = Null /\ classes[R2].ctorParent = Null
              /\ classes[R1].cache = (key :> c)
              /\ classes[R2].cache = (key :> last.res)

====
